---- MODULE Spec2Model ----
(***************************************************************************)
(* A model of arsc: the chunk walker (arsc/src/chunks.rs) and the resource *)
(* table loader (arsc/src/table.rs, arsc/src/stringpool.rs) over a byte    *)
(* slice.  Offsets are 0-based as in the source; `data` is a TLA+ sequence *)
(* and therefore read at index offset + 1.                                 *)
(***************************************************************************)
EXTENDS Integers, Sequences, FiniteSets, TLC

VARIABLES
    data,       \* the input byte slice (&[u8])
    beyond,     \* the bytes that follow the slice in memory; a read past them faults
    debug,      \* whether the build has debug assertions and overflow checks
    iter,       \* the ChunkIterator under test: [lo, hi, offset]
    item,       \* what the last call of next() returned
    prev,       \* what the call before it returned
    pc,         \* where LoadedTable::parse is
    top,        \* parse: the ChunkIterator over the whole input
    table,      \* parse_table: the Table chunk, its child iterator, value_strings, packages
    package,    \* parse_package: the Package chunk, its child iterator, pools, types
    child,      \* the item the loader took last from a walker
    result,     \* what parse returned, or how it ended
    ids,        \* the ResourceIdIterator a client drives, and what it has yielded
    query,      \* the last call a client made on the loaded model, with its result
    stack       \* main.rs: the walkers of the calls of iterate in progress, the
                \* innermost last

walkVars == <<iter, item, prev, stack>>
parseVars == <<pc, top, table, package, child, result>>
clientVars == <<ids, query>>
vars == <<data, beyond, debug, iter, item, prev, pc, top, table, package, child, result,
          ids, query, stack>>

(***************************************************************************)
(* Bytes and little-endian reads (endianness.rs)                           *)
(***************************************************************************)
Byte == 0..255

RECURSIVE Concat(_)
Concat(ss) == IF ss = <<>> THEN <<>> ELSE Head(ss) \o Concat(Tail(ss))

Take(s, n) == SubSeq(s, 1, IF n < Len(s) THEN n ELSE Len(s))

\* the encodings the input builders use
U8(v) == <<v % 256>>
U16(v) == <<v % 256, (v \div 256) % 256>>
U32(v) == <<v % 256, (v \div 256) % 256, (v \div 65536) % 256, (v \div 16777216) % 256>>

\* memory: the slice, then whatever follows it.  Address p is p bytes past the
\* start of the slice.
MemLen == Len(data) + Len(beyond)
MemByte(p) == IF p < Len(data) THEN data[p + 1] ELSE beyond[p - Len(data) + 1]

\* an address no memory of the model reaches
Unmapped == 1024 * 1024 * 1024

\* whether the n bytes at p can be read at all (a read elsewhere faults)
Readable(p, n) == p >= 0 /\ n >= 0 /\ p < Unmapped /\ n < Unmapped /\ p + n <= MemLen

\* LittleEndianU8::value, LittleEndianU16::value, LittleEndianU32::value of the
\* integer overlaid at address p.  TLC's integers are 32 bits wide: a u32 at
\* or above 2^31 is held as its value less 2^32 (0xffff_ffff as -1), which
\* keeps every u32 distinct; ULt is the order of u32 on values held so.
ReadU8(p) == MemByte(p)
ReadU16(p) == MemByte(p) + 256 * MemByte(p + 1)
ReadU32(p) ==
    MemByte(p) + 256 * MemByte(p + 1) + 65536 * MemByte(p + 2)
    + 16777216 * (IF MemByte(p + 3) >= 128 THEN MemByte(p + 3) - 256 ELSE MemByte(p + 3))
ULt(a, b) == IF (a < 0) = (b < 0) THEN a < b ELSE b < 0

\* the address u bytes past p (u a u32 as usize), and n items of k bytes;
\* whatever lies past every memory of the model is Unmapped
Offset(p, u) == IF p < 0 \/ p >= Unmapped \/ u < 0 \/ u >= Unmapped THEN Unmapped ELSE p + u
Scaled(n, k) == IF n < 0 \/ n >= Unmapped \div k THEN Unmapped ELSE n * k

(***************************************************************************)
(* chunks.rs: ChunkType, Header, ChunkIterator                             *)
(***************************************************************************)
TypeNull == 0
TypeStringPool == 1
TypeTable == 2
TypePackage == 512
TypeType == 513
TypeSpec == 514

\* the discriminants of enum ChunkType: what ChunkType::try_from accepts
ChunkTypeCodes == {0, 1, 2, 3, 256, 257, 258, 259, 260, 384, 512, 513, 514, 515}

\* mem::size_of::<Header>()
SizeOfHeader == 8

\* the match at the end of next(): the variant a type code becomes, or the
\* todo!() arm
ChunkKind(code) ==
    IF code = TypeTable THEN "Table"
    ELSE IF code = TypePackage THEN "Package"
    ELSE IF code = TypeStringPool THEN "StringPool"
    ELSE IF code = TypeSpec THEN "Spec"
    ELSE IF code = TypeType THEN "Type"
    ELSE "Panic"

\* items: a chunk variant over data[lo..hi), an Error item, None (end of the
\* sequence), or Panic (the call aborted instead of returning)
Item(kind, lo, hi, why) == [kind |-> kind, lo |-> lo, hi |-> hi, why |-> why]
NoItem == Item("Start", 0, 0, "")
ChunkKinds == {"Table", "Package", "StringPool", "Spec", "Type"}

\* ChunkIterator::new over the sub-slice data[lo..hi)
ChunkIteratorNew(lo, hi) == [lo |-> lo, hi |-> hi, offset |-> 0]

DataLen(it) == it.hi - it.lo

InvalidateNothing(it) == it

\* ChunkIterator::invalidate
Invalidate(it) == [it EXCEPT !.offset = DataLen(it)]

AdvancePastPayload(it, size) == [it EXCEPT !.offset = @ + SizeOfHeader + size]

\* self.offset += size
Advance(it, size) == [it EXCEPT !.offset = @ + size]

\* ChunkIterator::next: the iterator after the call and the item returned
ChunkIteratorNext(it) ==
    IF it.offset >= DataLen(it)
    THEN [it |-> it, item |-> Item("None", 0, 0, "")]
    ELSE
    LET bytes_left == DataLen(it) - it.offset
        at == it.lo + it.offset
    IN  IF bytes_left < SizeOfHeader
        THEN [it |-> Invalidate(it), item |-> Item("Error", at, at, "cannot contain header")]
        ELSE
        LET type_ == ReadU16(at)
            header_size == ReadU16(at + 2)
            size == ReadU32(at + 4)
        IN  IF ULt(size, header_size)
            THEN [it |-> Invalidate(it), item |-> Item("Error", at, at, "size less than header size")]
            ELSE IF ULt(bytes_left, size)
            THEN [it |-> Invalidate(it), item |-> Item("Error", at, at, "cannot contain chunk")]
            ELSE IF type_ \notin ChunkTypeCodes
            THEN [it |-> Invalidate(it), item |-> Item("Error", at, at, "unknown chunk type")]
            ELSE IF ChunkKind(type_) = "Panic"
            THEN [it |-> it, item |-> Item("Panic", at, at + size, "todo")]
            ELSE [it |-> Advance(it, size), item |-> Item(ChunkKind(type_), at, at + size, "")]

(***************************************************************************)
(* Outcomes of the loader's functions: Ok, the Error kinds of error.rs,    *)
(* Panic (the thread unwinds out of parse) and Fault (a read of memory     *)
(* that is not mapped kills the process)                                   *)
(***************************************************************************)
Outcome(kind, why) == [kind |-> kind, why |-> why]
Running == Outcome("Running", "")
ErrorKinds == {"BadIndex", "CorruptData", "IoError", "UnexpectedChunk"}

NoTable == [lo |-> 0, hi |-> 0, iter |-> ChunkIteratorNew(0, 0),
            value_strings |-> <<>>, packages |-> <<>>]
NoPackage == [lo |-> 0, hi |-> 0, iter |-> ChunkIteratorNew(0, 0),
              type_strings |-> <<>>, name_strings |-> <<>>, types |-> <<>>]

(***************************************************************************)
(* stringpool.rs: LoadedStringPool                                         *)
(***************************************************************************)
\* mem::size_of::<StringPool>()
SizeOfStringPool == 28

NoPool == [base |-> 0, header_size |-> 0, utf8 |-> FALSE, string_count |-> 0,
           strings_offset |-> 0, style_count |-> 0, styles_offset |-> 0]

\* Chunk::as_table, as_package, as_stringpool, as_spec, as_type: the variant
\* must match, and &bytes[0] of an empty slice panics
AsView(c, kind) ==
    IF c.kind # kind THEN Outcome("UnexpectedChunk", "")
    ELSE IF c.hi = c.lo THEN Outcome("Panic", "index out of bounds")
    ELSE Outcome("Ok", "")

\* the three checks at the head of from_chunk
PoolHeaderCheck(size, header_size) ==
    IF size < SizeOfStringPool THEN Outcome("CorruptData", "size too small")
    ELSE IF size < header_size THEN Outcome("CorruptData", "size smaller than header size")
    ELSE IF header_size % 4 # 0 \/ size % 4 # 0 THEN Outcome("CorruptData", "misaligned data")
    ELSE Outcome("Ok", "")

\* LoadedStringPool::from_chunk
FromChunk(c) ==
    IF AsView(c, "StringPool").kind # "Ok"
    THEN [out |-> AsView(c, "StringPool"), pool |-> NoPool]
    ELSE
    LET header_size == ReadU16(c.lo + 2)
        size == ReadU32(c.lo + 4)
        check == PoolHeaderCheck(size, header_size)
    IN  IF check.kind # "Ok"
        THEN [out |-> check, pool |-> NoPool]
        ELSE
        LET style_count == ReadU32(c.lo + 12)
        IN  [out |-> check,
             pool |-> [base |-> c.lo,
                       header_size |-> header_size,
                       utf8 |-> (ReadU32(c.lo + 16) \div 256) % 2 = 1,
                       string_count |-> ReadU32(c.lo + 8),
                       strings_offset |-> ReadU32(c.lo + 20),
                       style_count |-> style_count,
                       styles_offset |-> IF style_count # 0 THEN ReadU32(c.lo + 24) ELSE 0]]

\* String::from_utf16_lossy: a surrogate pair is one scalar value, an unpaired
\* surrogate becomes U+FFFD
RECURSIVE Utf16Lossy(_)
Utf16Lossy(u) ==
    IF u = <<>> THEN <<>>
    ELSE IF u[1] < 55296 \/ u[1] > 57343 THEN <<u[1]>> \o Utf16Lossy(Tail(u))
    ELSE IF u[1] <= 56319 /\ Len(u) >= 2 /\ u[2] >= 56320 /\ u[2] <= 57343
    THEN <<65536 + (u[1] - 55296) * 1024 + (u[2] - 56320)>> \o Utf16Lossy(Tail(Tail(u)))
    ELSE <<65533>> \o Utf16Lossy(Tail(u))

IsCont(b) == b >= 128 /\ b <= 191

\* the bytes a well-formed sequence led by b has, 0 for a byte that leads none
Utf8Width(b) ==
    IF b < 128 THEN 1
    ELSE IF b >= 194 /\ b <= 223 THEN 2
    ELSE IF b >= 224 /\ b <= 239 THEN 3
    ELSE IF b >= 240 /\ b <= 244 THEN 4
    ELSE 0

\* whether c may follow the lead byte b
Utf8Second(b, c) ==
    IF b = 224 THEN c >= 160 /\ c <= 191
    ELSE IF b = 237 THEN c >= 128 /\ c <= 159
    ELSE IF b = 240 THEN c >= 144 /\ c <= 191
    ELSE IF b = 244 THEN c >= 128 /\ c <= 143
    ELSE IsCont(c)

\* String::from_utf8_lossy: each maximal ill-formed subsequence becomes U+FFFD
RECURSIVE Utf8Lossy(_)
Utf8Lossy(b) ==
    IF b = <<>> THEN <<>>
    ELSE
    LET w == Utf8Width(b[1])
        rest(n) == Utf8Lossy(SubSeq(b, n + 1, Len(b)))
    IN  IF w = 1 THEN <<b[1]>> \o rest(1)
        ELSE IF w = 0 \/ Len(b) < 2 \/ ~Utf8Second(b[1], b[2]) THEN <<65533>> \o rest(1)
        ELSE IF w = 2 THEN <<(b[1] - 192) * 64 + (b[2] - 128)>> \o rest(2)
        ELSE IF Len(b) < 3 \/ ~IsCont(b[3]) THEN <<65533>> \o rest(2)
        ELSE IF w = 3 THEN <<(b[1] - 224) * 4096 + (b[2] - 128) * 64 + (b[3] - 128)>> \o rest(3)
        ELSE IF Len(b) < 4 \/ ~IsCont(b[4]) THEN <<65533>> \o rest(3)
        ELSE <<(b[1] - 240) * 262144 + (b[2] - 128) * 4096 + (b[3] - 128) * 64 + (b[4] - 128)>>
             \o rest(4)

Str(out, s) == [out |-> out, s |-> s]
StrFault == Str(Outcome("Fault", "read of unmapped memory"), <<>>)

\* slice::from_raw_parts(ptr, len) of string_at_utf8, decoded lossily
Utf8Slice(p, len) ==
    IF ~Readable(p, len) THEN StrFault
    ELSE Str(Outcome("Ok", ""), Utf8Lossy([k \in 1..len |-> ReadU8(p + k - 1)]))

\* decode_len of string_at_utf8 at p, then the slice after this length prefix
Utf8Counted(p) ==
    IF ~Readable(p, 1) \/ (ReadU8(p) >= 128 /\ ~Readable(p, 2)) THEN StrFault
    ELSE IF ReadU8(p) >= 128
    THEN Utf8Slice(p + 2, (ReadU8(p) % 128) * 256 + ReadU8(p + 1))
    ELSE Utf8Slice(p + 1, ReadU8(p))

\* decode_len of string_at_utf8 at p, fast forwarding over this first prefix
Utf8Skipped(p) ==
    IF ~Readable(p, 1) \/ (ReadU8(p) >= 128 /\ ~Readable(p, 2)) THEN StrFault
    ELSE Utf8Counted(p + (IF ReadU8(p) >= 128 THEN 2 ELSE 1))

\* slice::from_raw_parts(ptr, len) of string_at_utf16, decoded lossily
Utf16Slice(p, len) ==
    IF ~Readable(p, Scaled(len, 2)) THEN StrFault
    ELSE Str(Outcome("Ok", ""), Utf16Lossy([k \in 1..len |-> ReadU16(p + 2 * (k - 1))]))

\* decode_len of string_at_utf16 at p, then the slice after the length prefix
Utf16Counted(p) ==
    IF ~Readable(p, 2) \/ (ReadU16(p) >= 32768 /\ ~Readable(p, 4)) THEN StrFault
    ELSE IF ReadU16(p) >= 32768
    THEN Utf16Slice(p + 4, (ReadU16(p) % 32768) * 65536 + ReadU16(p + 2))
    ELSE Utf16Slice(p + 2, ReadU16(p))

\* the address of string_offsets[i], and strings_start.add(offset)
StringOffsetAt(pool, i) == Offset(pool.base + pool.header_size, Scaled(i, 4))
StringPtr(pool, offset) == Offset(Offset(pool.base, pool.strings_offset), offset)

\* string_at_utf8: two length prefixes, the second one counts the bytes
StringAtUtf8(pool, i) ==
    IF ~Readable(StringOffsetAt(pool, i), 4) THEN StrFault
    ELSE Utf8Skipped(StringPtr(pool, ReadU32(StringOffsetAt(pool, i))))

\* string_at_utf16: one length prefix, counting 16-bit units
StringAtUtf16(pool, i) ==
    IF ~Readable(StringOffsetAt(pool, i), 4) THEN StrFault
    ELSE Utf16Counted(StringPtr(pool, ReadU32(StringOffsetAt(pool, i))))

\* LoadedStringPool::string_at
StringAt(pool, i) ==
    IF ~ULt(i, pool.string_count) THEN Str(Outcome("BadIndex", ""), <<>>)
    ELSE IF pool.utf8 THEN StringAtUtf8(pool, i)
    ELSE StringAtUtf16(pool, i)

\* mem::size_of::<StringPoolSpan>()
SizeOfStringPoolSpan == 12

\* &style_offsets[i]: the slice starts behind the string_count string offsets
StyleOffsetAt(pool, i) ==
    Offset(Offset(pool.base + pool.header_size, Scaled(pool.string_count, 4)), Scaled(i, 4))

Styled(out, spans) == [out |-> out, spans |-> spans]

\* spans.push of line 126 before the spans the loop pushes later
PushSpan(span, rest) ==
    IF rest.out.kind # "Ok" THEN rest ELSE Styled(rest.out, <<span>> \o rest.spans)

RECURSIVE Spans(_)
\* the while loop of lines 125-132 from span_ptr on
Spans(span_ptr) ==
    IF ~Readable(span_ptr, 4) THEN Styled(StrFault.out, <<>>)
    ELSE IF ReadU32(span_ptr) = -1 THEN Styled(Outcome("Ok", ""), <<>>)
    ELSE IF ~Readable(span_ptr, SizeOfStringPoolSpan) THEN Styled(StrFault.out, <<>>)
    ELSE PushSpan([name |-> ReadU32(span_ptr), begin |-> ReadU32(span_ptr + 4),
                   end |-> ReadU32(span_ptr + 8)],
                  Spans(span_ptr + SizeOfStringPoolSpan))

\* LoadedStringPool::style_at
StyleAt(pool, i) ==
    IF ~ULt(i, pool.style_count) THEN Styled(Outcome("BadIndex", ""), <<>>)
    ELSE IF ~Readable(StyleOffsetAt(pool, i), 4) THEN Styled(StrFault.out, <<>>)
    ELSE Spans(Offset(Offset(pool.base, pool.styles_offset), ReadU32(StyleOffsetAt(pool, i))))

(***************************************************************************)
(* chunks.rs: the structs overlaid on a chunk (field offsets in bytes)     *)
(***************************************************************************)
Table_package_count == 8
SizeOfPackage == 284
Package_id == 8
Package_name == 12
Package_types_string_buffer_offset == 268
Package_names_string_buffer_offset == 276
Type_id == 8
Type_flags == 9
Type_entry_count == 12
Type_entries_offset == 16
Type_config == 20
SizeOfType == 56
SizeOfSpec == 16
Entry_flags == 2
Entry_key_index == 4
MapEntry_count == 12

\* Chunk::iter of a Table or Package chunk: the walker over bytes[header_size..]
ChunkIter(c) == ChunkIteratorNew(c.lo + ReadU16(c.lo + 2), c.hi)

(***************************************************************************)
(* table.rs: parse_type                                                    *)
(***************************************************************************)
\* 0xffff_ffff, the offset of a slot without entry
NoEntryOffset == -1

Absent == [present |-> FALSE, entry |-> 0, complex |-> FALSE, config |-> 0]

Values(out, values) == [out |-> out, values |-> values]
Fault == Outcome("Fault", "read of unmapped memory")

\* whether the loop body of parse_type can read the Entry (and, for a complex
\* entry, the MapEntry count) at addr
EntryReadable(addr) ==
    /\ Readable(addr, 4)
    /\ ReadU16(addr + Entry_flags) % 2 = 1 => Readable(addr + MapEntry_count, 4)

\* parse_type from line 281 on: one optional ConfigAndValue per entry slot
ParseEntries(c) ==
    IF ~Readable(c.lo + Type_entry_count, 4) THEN Values(Fault, <<>>)
    ELSE
    LET payload == c.lo + ReadU16(c.lo + 2)
        entry_count == ReadU32(c.lo + Type_entry_count)
    IN  IF ~Readable(payload, Scaled(entry_count, 4)) THEN Values(Fault, <<>>)
        ELSE
        LET offset(i) == ReadU32(payload + 4 * (i - 1))
            present == {i \in 1..entry_count : offset(i) # NoEntryOffset}
            addr(i) == Offset(Offset(c.lo, ReadU32(c.lo + Type_entries_offset)), offset(i))
        IN  IF present # {} /\ ~Readable(c.lo + Type_entries_offset, 4) THEN Values(Fault, <<>>)
            ELSE IF \E i \in present : ~EntryReadable(addr(i)) THEN Values(Fault, <<>>)
            ELSE Values(Outcome("Ok", ""),
                        [i \in 1..entry_count |->
                            IF i \in present
                            THEN [present |-> TRUE, entry |-> addr(i),
                                  complex |-> ReadU16(addr(i) + Entry_flags) % 2 = 1,
                                  config |-> c.lo + Type_config]
                            ELSE Absent])

\* parse_type without the test of lines 278-280: a sparse chunk is read as a
\* dense one
ParseTypeSparseAccepted(c) ==
    IF AsView(c, "Type").kind # "Ok" THEN Values(AsView(c, "Type"), <<>>)
    ELSE ParseEntries(c)

\* LoadedTable::parse_type
ParseType(c) ==
    IF AsView(c, "Type").kind # "Ok" THEN Values(AsView(c, "Type"), <<>>)
    ELSE IF ~Readable(c.lo + Type_flags, 1) THEN Values(Fault, <<>>)
    ELSE IF ReadU8(c.lo + Type_flags) % 2 = 1
    THEN Values(Outcome("Panic", "FLAG_SPARSE not supported yet"), <<>>)
    ELSE ParseEntries(c)

(***************************************************************************)
(* table.rs: parse_package after its loop (lines 194-268)                  *)
(***************************************************************************)
RECURSIVE SortSet(_)
SortSet(S) ==
    IF S = {} THEN <<>>
    ELSE LET m == CHOOSE x \in S : \A y \in S : x <= y
         IN  <<m>> \o SortSet(S \ {m})

\* entries.sort_unstable_by_key(|entry| entry.id)
RECURSIVE SortById(_)
SortById(es) ==
    IF es = <<>> THEN <<>>
    ELSE LET k == CHOOSE i \in DOMAIN es : \A j \in DOMAIN es : es[i].id <= es[j].id
         IN  <<es[k]>> \o SortById(SubSeq(es, 1, k - 1) \o SubSeq(es, k + 1, Len(es)))

RECURSIVE SeqOfPresent(_, _, _)
\* the i-th slot of every value vector from the k-th on that has it
SeqOfPresent(all_values, i, k) ==
    IF k > Len(all_values) THEN <<>>
    ELSE (IF i <= Len(all_values[k]) /\ all_values[k][i].present
          THEN <<all_values[k][i]>> ELSE <<>>)
         \o SeqOfPresent(all_values, i, k + 1)

Loaded(out, val) == [out |-> out, val |-> val]

\* lines 245-249: the entry of slot n pushed, its name looked up, before the
\* entries of the slots popped after it
PushEntry(n, values, name, rest) ==
    IF name.out.kind = "Fault" THEN Loaded(Fault, <<>>)
    ELSE IF name.out.kind # "Ok"
    THEN Loaded(Outcome("Panic", "called unwrap on an Err value"), <<>>)
    ELSE IF rest.out.kind # "Ok" THEN rest
    ELSE Loaded(rest.out,
                <<[id |-> (n - 1) % 65536, name |-> name.s, values |-> values]>> \o rest.val)

\* the while loop of lines 232-250: config_and_values is popped from the back,
\* n slots are left; the entries pushed from here on
RECURSIVE PopEntries(_, _, _)
PopEntries(config_and_values, n, name_strings) ==
    IF n = 0 THEN Loaded(Outcome("Ok", ""), <<>>)
    ELSE IF config_and_values[n] = <<>> THEN PopEntries(config_and_values, n - 1, name_strings)
    ELSE IF ~Readable(config_and_values[n][1].entry + Entry_key_index, 4) THEN Loaded(Fault, <<>>)
    ELSE PushEntry(n, config_and_values[n],
                   StringAt(name_strings, ReadU32(config_and_values[n][1].entry + Entry_key_index)),
                   PopEntries(config_and_values, n - 1, name_strings))

\* lines 254-258: the LoadedType pushed, its name looked up
PushType(id, name, entries) ==
    IF name.out.kind # "Ok" THEN Loaded(name.out, <<>>)
    ELSE Loaded(name.out, [id |-> id, name |-> name.s, entries |-> SortById(entries)])

\* lines 251-258, once the while loop has ended as entries tells
SortAndPush(id, entries, type_strings) ==
    IF entries.out.kind # "Ok" THEN entries
    ELSE IF id = 0 /\ debug THEN Loaded(Outcome("Panic", "assertion failed: id > 0"), <<>>)
    ELSE PushType(id, StringAt(type_strings, (id + 255) % 256), entries.val)

\* the body of the loop of lines 217-259 for one type id
LoadType(id, all_values, type_strings, name_strings) ==
    IF \E k \in DOMAIN all_values : \E i \in DOMAIN all_values[k] :
          all_values[k][i].present /\ i > Len(all_values[1])
    THEN Loaded(Outcome("Panic", "index out of bounds"), <<>>)
    ELSE SortAndPush(id,
                     PopEntries([i \in 1..Len(all_values[1]) |-> SeqOfPresent(all_values, i, 1)],
                                Len(all_values[1]), name_strings),
                     type_strings)

\* types.get(&id): the value vectors pushed for id, in the order pushed
AllValues(types, id) ==
    LET mine == SelectSeq(types, LAMBDA t : t.id = id)
    IN  [k \in DOMAIN mine |-> mine[k].values]

\* loaded_types: the type loaded first, before those loaded after it
TypesFrom(first, rest) ==
    IF first.out.kind # "Ok" THEN first
    ELSE IF rest.out.kind # "Ok" THEN rest
    ELSE Loaded(rest.out, <<first.val>> \o rest.val)

RECURSIVE LoadTypes(_, _, _, _)
\* the loop of lines 217-259 over the sorted ids
LoadTypes(sorted_ids, types, type_strings, name_strings) ==
    IF sorted_ids = <<>> THEN Loaded(Outcome("Ok", ""), <<>>)
    ELSE TypesFrom(LoadType(Head(sorted_ids), AllValues(types, Head(sorted_ids)),
                            type_strings, name_strings),
                   LoadTypes(Tail(sorted_ids), types, type_strings, name_strings))

RECURSIVE NameUnits(_, _)
\* the 16-bit units of the name field from the k-th on, up to the first zero;
\* <<-1>> ends the sequence when a unit cannot be read
NameUnits(at, k) ==
    IF k >= 128 THEN <<>>
    ELSE IF ~Readable(at + 2 * k, 2) THEN <<-1>>
    ELSE IF ReadU16(at + 2 * k) = 0 THEN <<>>
    ELSE <<ReadU16(at + 2 * k)>> \o NameUnits(at, k + 1)

\* LittleEndianU16::decode_string over the 128 units of Package::name
DecodeString(at) ==
    LET units == NameUnits(at, 0)
    IN  IF units # <<>> /\ units[Len(units)] = -1 THEN Str(Fault, <<>>)
        ELSE Str(Outcome("Ok", ""), Utf16Lossy(units))

\* lines 212-267: the LoadedPackage of the decoded name and the loaded types
PackageOf(p, name, loaded_types) ==
    IF name.out.kind # "Ok" THEN Loaded(name.out, <<>>)
    ELSE IF loaded_types.out.kind # "Ok" THEN loaded_types
    ELSE IF ~Readable(p.lo + Package_id, 4) THEN Loaded(Fault, <<>>)
    ELSE Loaded(loaded_types.out,
                [id |-> ReadU32(p.lo + Package_id) % 256,
                 name |-> name.s,
                 type_strings |-> p.type_strings[1],
                 name_strings |-> p.name_strings[1],
                 types |-> loaded_types.val])

\* lines 194-268 of parse_package
FinishPackage(p) ==
    IF p.type_strings = <<>>
    THEN Loaded(Outcome("CorruptData", "missing type string pool in package"), <<>>)
    ELSE IF p.name_strings = <<>>
    THEN Loaded(Outcome("CorruptData", "missing name string pool in package"), <<>>)
    ELSE PackageOf(p, DecodeString(p.lo + Package_name),
                   LoadTypes(SortSet({p.types[k].id : k \in DOMAIN p.types}),
                             p.types, p.type_strings[1], p.name_strings[1]))

(***************************************************************************)
(* resources.rs: ResourceId.  The u32 is held as the 32-bit value of the   *)
(* same bits: ids of a package id above 127 are negative.                  *)
(***************************************************************************)
\* from_parts with the entry id cut to its low byte
FromPartsLowByte(package_id, type_id, entry_id) ==
    [id |-> (IF package_id >= 128 THEN package_id - 256 ELSE package_id) * (2 ^ 24)
            + type_id * (2 ^ 16) + (entry_id % 256)]

\* ResourceId::from_parts: the three fields do not overlap, so | is +
FromParts(package_id, type_id, entry_id) ==
    [id |-> (IF package_id >= 128 THEN package_id - 256 ELSE package_id) * (2 ^ 24)
            + type_id * (2 ^ 16) + entry_id]

\* ResourceId::from_u32 and From<ResourceId> for u32
FromU32(id) == [id |-> id]
IntoU32(resid) == resid.id

\* ResourceId::package_id, type_id, entry_id: mask, shift, narrow
PackageId(resid) == (resid.id \div (2 ^ 24)) % 256
TypeId(resid) == (resid.id \div (2 ^ 16)) % 256
EntryId(resid) == resid.id % (2 ^ 16)

(***************************************************************************)
(* table.rs: the queries on a LoadedTable.  None is <<>>, Some(x) is <<x>>. *)
(***************************************************************************)
\* Iterator::find: the first element of s among those that pass the test,
\* whose indices are hits
Find(s, hits) ==
    IF hits = {} THEN <<>> ELSE <<s[CHOOSE k \in hits : \A j \in hits : k <= j]>>

\* the id built with the type id in the place of the package id
ResidOfEntryTypeFirst(p, t, e) ==
    IF e = <<>> THEN <<>> ELSE <<FromParts(t.id, p.id, e[1].id)>>

\* lines 84-85 of resid_for_name, for what the two finds before gave
ResidOfEntry(p, t, e) ==
    IF e = <<>> THEN <<>> ELSE <<FromParts(p.id, t.id, e[1].id)>>
ResidInType(p, t, entry_name) ==
    IF t = <<>> THEN <<>>
    ELSE ResidOfEntry(p, t[1], Find(t[1].entries,
                                    {k \in DOMAIN t[1].entries : t[1].entries[k].name = entry_name}))
ResidInPackage(p, type_name, entry_name) ==
    IF p = <<>> THEN <<>>
    ELSE ResidInType(p[1], Find(p[1].types, {k \in DOMAIN p[1].types : p[1].types[k].name = type_name}),
                     entry_name)

\* LoadedTable::resid_for_name
ResidForName(packages, package_name, type_name, entry_name) ==
    ResidInPackage(Find(packages, {k \in DOMAIN packages : packages[k].name = package_name}),
                   type_name, entry_name)

\* the names returned with the type name first
NameOfEntryTypeFirst(p, t, e) ==
    IF e = <<>> THEN <<>> ELSE <<<<t.name, p.name, e[1].name>>>>

\* lines 91-92 of name_for_resid, for what the two finds before gave
NameOfEntry(p, t, e) ==
    IF e = <<>> THEN <<>> ELSE <<<<p.name, t.name, e[1].name>>>>
NameInType(p, t, resid) ==
    IF t = <<>> THEN <<>>
    ELSE NameOfEntry(p, t[1], Find(t[1].entries,
                                   {k \in DOMAIN t[1].entries : t[1].entries[k].id = EntryId(resid)}))
NameInPackage(p, resid) ==
    IF p = <<>> THEN <<>>
    ELSE NameInType(p[1], Find(p[1].types, {k \in DOMAIN p[1].types : p[1].types[k].id = TypeId(resid)}),
                    resid)

\* LoadedTable::name_for_resid
NameForResid(packages, resid) ==
    NameInPackage(Find(packages, {k \in DOMAIN packages : packages[k].id = PackageId(resid)}), resid)

Reverse(s) == [k \in DOMAIN s |-> s[Len(s) + 1 - k]]

\* the LoadedEntryIterators of lines 336-342 for one package
EntryIterators(pkg) ==
    [k \in DOMAIN pkg.types |->
        [package_id |-> pkg.id, type_id |-> pkg.types[k].id,
         entries |-> [j \in DOMAIN pkg.types[k].entries |-> pkg.types[k].entries[j].id]]]

\* ResourceIdIterator::new without the reverse of line 344
ResourceIdIteratorNewUnreversed(packages) ==
    [iters |-> Concat([k \in DOMAIN packages |-> EntryIterators(packages[k])]),
     current |-> <<>>]

\* ResourceIdIterator::new
ResourceIdIteratorNew(packages) ==
    [iters |-> Reverse(Concat([k \in DOMAIN packages |-> EntryIterators(packages[k])])),
     current |-> <<>>]

RECURSIVE ResourceIdIteratorNext(_)
\* ResourceIdIterator::next, with LoadedEntryIterator::next (lines 384-388)
ResourceIdIteratorNext(it) ==
    IF it.current # <<>>
    THEN IF it.current[1].entries # <<>>
         THEN [it |-> [it EXCEPT !.current[1].entries = Tail(@)],
               item |-> <<FromParts(it.current[1].package_id, it.current[1].type_id,
                                    Head(it.current[1].entries))>>]
         ELSE ResourceIdIteratorNext([it EXCEPT !.current = <<>>])
    ELSE IF it.iters # <<>>
    THEN ResourceIdIteratorNext([iters |-> SubSeq(it.iters, 1, Len(it.iters) - 1),
                                 current |-> <<it.iters[Len(it.iters)]>>])
    ELSE [it |-> it, item |-> <<>>]

\* no iterator made, no query made
NoIterator == [it |-> <<>>, yielded |-> <<>>, ended |-> FALSE, earlier |-> <<>>]
NoQuery == [op |-> "none", arg |-> <<>>, ret |-> <<>>, after |-> <<>>]

(***************************************************************************)
(* The walker driven by repeated next() calls over one slice               *)
(***************************************************************************)
MaxHeaders == 2

WalkTypeCodes == {TypeNull, TypeStringPool, 9}
WalkHeaderSizes == {0, 8}
WalkSizes == {0, 4, 8, 16}
WalkCuts == {0, 1, 4}

HeaderBytes(type_, header_size, size) == U16(type_) \o U16(header_size) \o U32(size)

WalkHeaders == {HeaderBytes(t, h, s) : t \in WalkTypeCodes, h \in WalkHeaderSizes, s \in WalkSizes}

\* the slices walked: up to MaxHeaders headers back to back, the last bytes cut
WalkInputs ==
    UNION {{Take(Concat(hs), Len(Concat(hs)) - c) : hs \in [1..n -> WalkHeaders], c \in WalkCuts}
           : n \in 0..MaxHeaders}

WalkInit ==
    /\ data \in WalkInputs
    /\ iter = ChunkIteratorNew(0, Len(data))
    /\ item = NoItem
    /\ prev = NoItem
    /\ beyond = <<>>
    /\ debug = TRUE
    /\ pc = "idle"
    /\ top = ChunkIteratorNew(0, 0)
    /\ table = NoTable
    /\ package = NoPackage
    /\ child = NoItem
    /\ result = Running
    /\ ids = NoIterator
    /\ query = NoQuery
    /\ stack = <<>>

\* one call of next() on the walker; a call that panicked is the last one
CallNext ==
    /\ item.kind # "Panic"
    /\ LET r == ChunkIteratorNext(iter)
       IN  /\ iter' = r.it
           /\ item' = r.item
    /\ prev' = item
    /\ UNCHANGED <<data, beyond, debug, stack>>
    /\ UNCHANGED parseVars
    /\ UNCHANGED clientVars

WalkNext == CallNext

Spec == WalkInit /\ [][WalkNext]_vars

(***************************************************************************)
(* LoadedTable::parse over one input                                       *)
(***************************************************************************)
MaxTableChildren == 2
MaxPackageChildren == 3
MaxTypeChunks == 2
BeyondLen == 288

Zeros(n) == [k \in 1..n |-> 0]

\* a UTF-16 string pool holding the one string "a"
GoodPool ==
    HeaderBytes(TypeStringPool, 28, 40) \o U32(1) \o U32(0) \o U32(0) \o U32(32) \o U32(0)
    \o U32(0) \o U16(1) \o U16(97) \o U16(0) \o U16(0)
\* a string pool without strings
EmptyPool == HeaderBytes(TypeStringPool, 28, 28) \o Zeros(20)
\* a string pool chunk too small for its header
SmallPool == HeaderBytes(TypeStringPool, 8, 8)
\* a header of total-size 0
ZeroChunk(type_) == HeaderBytes(type_, 0, 0)
\* a chunk of a type the loader does not ingest
NullChunk == HeaderBytes(TypeNull, 8, 8)
\* too few bytes for a header
Junk == Zeros(4)
\* a Spec chunk of one flag mask per entry
SpecWithFlags(flags) ==
    HeaderBytes(TypeSpec, SizeOfSpec, SizeOfSpec + 4 * Len(flags))
    \o U8(1) \o U8(0) \o U16(0) \o U32(Len(flags))
    \o Concat([k \in DOMAIN flags |-> U32(flags[k])])
SpecChunk == HeaderBytes(TypeSpec, 16, 16) \o U8(1) \o U8(0) \o U16(0) \o U32(0)

\* a simple entry with its Value, or nothing for an absent slot
EntryBytes(e) ==
    IF e.present
    THEN U16(8) \o U16(0) \o U32(e.key) \o U16(8) \o U8(0) \o U8(3) \o U32(0)
    ELSE <<>>
Key(k) == [present |-> TRUE, key |-> k]
NoEntry == [present |-> FALSE, key |-> 0]

RECURSIVE EntryOffsets(_, _)
EntryOffsets(es, at) ==
    IF es = <<>> THEN <<>>
    ELSE (IF Head(es).present THEN U32(at) ELSE U32(NoEntryOffset))
         \o EntryOffsets(Tail(es), at + Len(EntryBytes(Head(es))))

TypeChunk(id, flags, es) ==
    LET body == EntryOffsets(es, 0) \o Concat([k \in DOMAIN es |-> EntryBytes(es[k])])
    IN  HeaderBytes(TypeType, SizeOfType, SizeOfType + Len(body))
        \o U8(id) \o U8(flags) \o U16(0) \o U32(Len(es)) \o U32(SizeOfType + 4 * Len(es))
        \o Zeros(36) \o body

PackageChunk(header_size, id, types_offset, names_offset, body) ==
    HeaderBytes(TypePackage, header_size, SizeOfPackage + Len(body))
    \o U32(id) \o U16(112) \o Zeros(254)
    \o U32(types_offset) \o U32(0) \o U32(names_offset) \o U32(0) \o body

TableChunk(header_size, package_count, body) ==
    HeaderBytes(TypeTable, header_size, 12 + Len(body)) \o U32(package_count) \o body

\* a package with its two pools and one type of one entry
GoodPackage ==
    PackageChunk(SizeOfPackage, 127, SizeOfPackage, SizeOfPackage + Len(GoodPool),
                 GoodPool \o GoodPool \o TypeChunk(1, 0, <<Key(0)>>))
\* a package chunk that ends before its header does
ShortPackage == HeaderBytes(TypePackage, 8, 8 + Len(GoodPool)) \o GoodPool
GoodTable == TableChunk(12, 1, EmptyPool \o GoodPackage)

SeqsUpTo(S, n) == UNION {[1..k -> S] : k \in 0..n}

\* the children a Table is given, around well-formed packages
TableChildKinds ==
    {EmptyPool, SmallPool, GoodPackage, ShortPackage, SpecChunk, Junk, NullChunk,
     ZeroChunk(TypeStringPool), ZeroChunk(TypePackage), TableChunk(12, 0, <<>>),
     TypeChunk(1, 0, <<Key(0)>>)}
\* header_size and package_count of the Table
TableShapes == {<<12, 0>>, <<12, 1>>, <<8, 1>>, <<0, 1>>}
TableInputs ==
    {TableChunk(sh[1], sh[2], Concat(cs)) :
        sh \in TableShapes, cs \in SeqsUpTo(TableChildKinds, MaxTableChildren)}

\* the children a Package is given, and where its header says its pools are
PackageChildKinds ==
    {GoodPool, SpecChunk, TypeChunk(1, 0, <<Key(0)>>), Junk, ZeroChunk(TypeStringPool)}
\* types_string_buffer_offset and names_string_buffer_offset: the first and
\* the second child, the second and the first, both the first, neither the first
PoolOffsets ==
    {<<SizeOfPackage, SizeOfPackage + Len(GoodPool)>>,
     <<SizeOfPackage + Len(GoodPool), SizeOfPackage>>,
     <<SizeOfPackage, SizeOfPackage>>,
     <<SizeOfPackage + Len(GoodPool), SizeOfPackage + 2 * Len(GoodPool)>>}
PackageInputs ==
    {TableChunk(12, 1, EmptyPool \o PackageChunk(SizeOfPackage, 127, o[1], o[2], Concat(cs))) :
        o \in PoolOffsets, cs \in SeqsUpTo(PackageChildKinds, MaxPackageChildren)}

\* the Type chunks a package with both pools is given, and a Spec chunk whose
\* one mask has bit 17
TypeChunkKinds ==
    {TypeChunk(1, 0, <<Key(0)>>), TypeChunk(1, 0, <<NoEntry, Key(0)>>), TypeChunk(0, 0, <<Key(0)>>),
     TypeChunk(2, 0, <<Key(0)>>), TypeChunk(1, 1, <<Key(0)>>), TypeChunk(1, 0, <<Key(7)>>),
     SpecWithFlags(<<131072>>)}
TypeInputs ==
    {TableChunk(12, 1, EmptyPool \o
        PackageChunk(SizeOfPackage, 127, SizeOfPackage, SizeOfPackage + Len(GoodPool),
                     GoodPool \o GoodPool \o Concat(cs))) :
        cs \in SeqsUpTo(TypeChunkKinds, MaxTypeChunks)}

\* a UTF-16 string pool of 256 strings, each the one string "a" at offset 0
ManyPool ==
    HeaderBytes(TypeStringPool, 28, 28 + 4 * 256 + 8) \o U32(256) \o U32(0) \o U32(0)
    \o U32(28 + 4 * 256) \o U32(0) \o Zeros(4 * 256) \o U16(1) \o U16(97) \o U16(0) \o U16(0)
\* a package of 256 type strings with one Type chunk of type-id 0
ManyTypeStrings ==
    TableChunk(12, 1, EmptyPool \o
        PackageChunk(SizeOfPackage, 127, SizeOfPackage, SizeOfPackage + Len(ManyPool),
                     ManyPool \o GoodPool \o TypeChunk(0, 0, <<Key(0)>>)))

\* what the input starts with, and what follows it
FirstKinds ==
    {<<>>, GoodTable, EmptyPool, Junk, NullChunk, ZeroChunk(TypeTable),
     HeaderBytes(TypeTable, 12, 16) \o U32(0)}
TrailingKinds == {<<>>, Junk, NullChunk, EmptyPool, GoodTable}
TopInputs == {f \o t : f \in FirstKinds, t \in TrailingKinds}

ParseInputs ==
    TableInputs \cup PackageInputs \cup TypeInputs \cup TopInputs \cup {ManyTypeStrings}

\* what may follow the slice in memory: nothing that can be read, or words of 8
BeyondChoices(n) == {<<>>, [k \in 1..BeyondLen |-> IF (n + k - 1) % 4 = 0 THEN 8 ELSE 0]}

ParseInit ==
    /\ data \in ParseInputs
    /\ beyond \in BeyondChoices(Len(data))
    /\ debug \in BOOLEAN
    /\ iter = ChunkIteratorNew(0, 0)
    /\ item = NoItem
    /\ prev = NoItem
    /\ pc = "parse"
    /\ top = ChunkIteratorNew(0, Len(data))
    /\ table = NoTable
    /\ package = NoPackage
    /\ child = NoItem
    /\ result = Running
    /\ ids = NoIterator
    /\ query = NoQuery
    /\ stack = <<>>

Return(out) == pc' = "done" /\ result' = out

\* parse, lines 54-59: the first item of the top-level walk must be a Table
ParseFirstItem ==
    /\ pc = "parse"
    /\ LET r == ChunkIteratorNext(top)
       IN  /\ top' = r.it
           /\ child' = r.item
           /\ IF r.item.kind = "Table"
              THEN /\ pc' = "trailing"
                   /\ table' = [NoTable EXCEPT !.lo = r.item.lo, !.hi = r.item.hi]
                   /\ UNCHANGED result
              ELSE /\ UNCHANGED table
                   /\ IF r.item.kind = "Panic" THEN Return(Outcome("Panic", "not yet implemented"))
                      ELSE IF r.item.kind = "None"
                      THEN Return(Outcome("CorruptData", "no data to traverse"))
                      ELSE Return(Outcome("CorruptData", "not a table chunk"))
    /\ UNCHANGED <<data, beyond, debug, package>>
    /\ UNCHANGED walkVars
    /\ UNCHANGED clientVars

\* parse, lines 60-63, and parse_table up to its loop (lines 98-104)
ParseTrailing ==
    /\ pc = "trailing"
    /\ LET r == ChunkIteratorNext(top)
           c == Item("Table", table.lo, table.hi, "")
       IN  /\ top' = r.it
           /\ child' = r.item
           /\ IF r.item.kind = "Panic"
              THEN Return(Outcome("Panic", "not yet implemented")) /\ UNCHANGED table
              ELSE IF r.item.kind # "None"
              THEN Return(Outcome("CorruptData", "trailing data after table")) /\ UNCHANGED table
              ELSE IF AsView(c, "Table").kind # "Ok"
              THEN Return(AsView(c, "Table")) /\ UNCHANGED table
              ELSE /\ pc' = "table"
                   /\ table' = [table EXCEPT !.iter = ChunkIter(c)]
                   /\ UNCHANGED result
    /\ UNCHANGED <<data, beyond, debug, package>>
    /\ UNCHANGED walkVars
    /\ UNCHANGED clientVars

\* the table returned whatever number of packages its header declares
FinishTableUncounted(t) ==
    IF t.value_strings = <<>>
    THEN Outcome("CorruptData", "missing string pool in table")
    ELSE Outcome("Ok", "")

\* parse_table after its loop (lines 122-136) and the end of parse
FinishTable(t) ==
    IF t.value_strings = <<>>
    THEN Outcome("CorruptData", "missing string pool in table")
    ELSE IF ~Readable(t.lo + Table_package_count, 4) THEN Fault
    ELSE IF Len(t.packages) # ReadU32(t.lo + Table_package_count)
    THEN Outcome("CorruptData", "expected other number of packages")
    ELSE Outcome("Ok", "")

\* the arm without its test of value_strings: a later pool replaces the first
TablePoolUnchecked(t, c) ==
    Loaded(FromChunk(c).out, [t EXCEPT !.value_strings = <<FromChunk(c).pool>>])

\* the StringPool arm of the loop of parse_table (lines 107-114): the table
\* after it, or how parse ends
TablePool(t, c) ==
    IF t.value_strings # <<>>
    THEN Loaded(Outcome("CorruptData", "muiltiple string pools in table"), t)
    ELSE Loaded(FromChunk(c).out, [t EXCEPT !.value_strings = <<FromChunk(c).pool>>])

\* one turn of the loop of parse_table (lines 105-120); when the walker is
\* exhausted, the rest of parse_table and of parse
TableChild ==
    /\ pc = "table"
    /\ LET r == ChunkIteratorNext(table.iter)
           c == r.item
           t == [table EXCEPT !.iter = r.it]
       IN  /\ child' = c
           /\ IF c.kind = "None"
              THEN Return(FinishTable(t)) /\ table' = t /\ UNCHANGED package
              ELSE IF c.kind = "Panic"
              THEN Return(Outcome("Panic", "not yet implemented")) /\ table' = t /\ UNCHANGED package
              ELSE IF c.kind = "StringPool"
              THEN /\ UNCHANGED package
                   /\ IF TablePool(t, c).out.kind # "Ok"
                      THEN Return(TablePool(t, c).out) /\ table' = t
                      ELSE table' = TablePool(t, c).val /\ UNCHANGED <<pc, result>>
              ELSE IF c.kind = "Package"
              THEN /\ table' = t
                   /\ IF AsView(c, "Package").kind # "Ok"
                      THEN Return(AsView(c, "Package")) /\ UNCHANGED package
                      ELSE /\ pc' = "package"
                           /\ package' = [NoPackage EXCEPT !.lo = c.lo, !.hi = c.hi,
                                                           !.iter = ChunkIter(c)]
                           /\ UNCHANGED result
              ELSE Return(Outcome("UnexpectedChunk", "")) /\ table' = t /\ UNCHANGED package
    /\ UNCHANGED <<data, beyond, debug, top>>
    /\ UNCHANGED walkVars
    /\ UNCHANGED clientVars

\* the StringPool arm of the loop of parse_package (lines 154-180): the package
\* after it, or how parse ends
PackagePool(p, c) ==
    LET offset == c.lo - p.lo
        types_at == p.lo + Package_types_string_buffer_offset
        names_at == p.lo + Package_names_string_buffer_offset
    IN  IF AsView(c, "StringPool").kind # "Ok" THEN Loaded(AsView(c, "StringPool"), p)
        ELSE IF ~Readable(types_at, 4) THEN Loaded(Fault, p)
        ELSE IF offset = ReadU32(types_at)
        THEN IF p.type_strings # <<>>
             THEN Loaded(Outcome("CorruptData", "multiple type string pools"), p)
             ELSE Loaded(FromChunk(c).out, [p EXCEPT !.type_strings = <<FromChunk(c).pool>>])
        ELSE IF ~Readable(names_at, 4) THEN Loaded(Fault, p)
        ELSE IF offset = ReadU32(names_at)
        THEN IF p.name_strings # <<>>
             THEN Loaded(Outcome("CorruptData", "multiple name string pools"), p)
             ELSE Loaded(FromChunk(c).out, [p EXCEPT !.name_strings = <<FromChunk(c).pool>>])
        ELSE Loaded(Outcome("CorruptData", "unexpected string pool in package"), p)

\* the Type arm (lines 184-189)
PackageType(p, c) ==
    IF AsView(c, "Type").kind # "Ok" THEN Loaded(AsView(c, "Type"), p)
    ELSE IF ~Readable(c.lo + Type_id, 1) THEN Loaded(Fault, p)
    ELSE Loaded(ParseType(c).out,
                [p EXCEPT !.types = Append(@, [id |-> ReadU8(c.lo + Type_id),
                                               values |-> ParseType(c).values])])

\* one arm of the match of lines 153-191
PackageArm(p, c) ==
    IF c.kind = "StringPool" THEN PackagePool(p, c)
    ELSE IF c.kind = "Spec" THEN Loaded(AsView(c, "Spec"), p)
    ELSE IF c.kind = "Type" THEN PackageType(p, c)
    ELSE Loaded(Outcome("UnexpectedChunk", ""), p)

\* one turn of the loop of parse_package (lines 152-192); when the walker is
\* exhausted, the rest of parse_package and the push of line 116
PackageChild ==
    /\ pc = "package"
    /\ LET r == ChunkIteratorNext(package.iter)
           c == r.item
           p == [package EXCEPT !.iter = r.it]
       IN  /\ child' = c
           /\ IF c.kind = "None"
              THEN /\ package' = p
                   /\ IF FinishPackage(p).out.kind # "Ok"
                      THEN Return(FinishPackage(p).out) /\ UNCHANGED table
                      ELSE /\ table' = [table EXCEPT !.packages = Append(@, FinishPackage(p).val)]
                           /\ pc' = "table"
                           /\ UNCHANGED result
              ELSE IF c.kind = "Panic"
              THEN Return(Outcome("Panic", "not yet implemented")) /\ package' = p /\ UNCHANGED table
              ELSE /\ UNCHANGED table
                   /\ IF PackageArm(p, c).out.kind # "Ok"
                      THEN Return(PackageArm(p, c).out) /\ package' = p
                      ELSE package' = PackageArm(p, c).val /\ UNCHANGED <<pc, result>>
    /\ UNCHANGED <<data, beyond, debug, top>>
    /\ UNCHANGED walkVars
    /\ UNCHANGED clientVars

ParseNext == ParseFirstItem \/ ParseTrailing \/ TableChild \/ PackageChild

ParseSpec == ParseInit /\ [][ParseNext]_vars

(***************************************************************************)
(* A client of the loaded model: parse, then resid_iter, resid_for_name,   *)
(* name_for_resid, and string_at and style_at on the loaded pools          *)
(***************************************************************************)
MaxIterators == 2
MaxIndex == 2

\* a UTF-16 string with its length prefix and terminator
String16(str) == U16(Len(str)) \o Concat([k \in DOMAIN str |-> U16(str[k])]) \o U16(0)

RECURSIVE StringOffsets(_, _)
StringOffsets(strs, at) ==
    IF strs = <<>> THEN <<>>
    ELSE U32(at) \o StringOffsets(Tail(strs), at + Len(String16(Head(strs))))

Pad4(bytes) == bytes \o Zeros((4 - (Len(bytes) % 4)) % 4)

\* a UTF-16 string pool of the given strings, without styles
Pool16(strs) ==
    LET body == StringOffsets(strs, 0)
                \o Pad4(Concat([k \in DOMAIN strs |-> String16(strs[k])]))
    IN  HeaderBytes(TypeStringPool, SizeOfStringPool, SizeOfStringPool + Len(body))
        \o U32(Len(strs)) \o U32(0) \o U32(0) \o U32(SizeOfStringPool + 4 * Len(strs))
        \o U32(0) \o body

\* a pool of the string "a" and one style of one span
StyledPool ==
    HeaderBytes(TypeStringPool, SizeOfStringPool, 60)
    \o U32(1) \o U32(1) \o U32(0) \o U32(36) \o U32(44)
    \o U32(0) \o U32(0) \o Pad4(String16(<<97>>))
    \o U32(0) \o U32(0) \o U32(1) \o U32(-1)

\* a pool that is all header and declares two strings and one style
LyingPool ==
    HeaderBytes(TypeStringPool, SizeOfStringPool, SizeOfStringPool)
    \o U32(2) \o U32(1) \o U32(0) \o U32(SizeOfStringPool) \o U32(SizeOfStringPool)

\* a package of the given id and one-letter name, its type pool, the name
\* pool of "a" and "b", and its Type chunks
PackageNamed(id, letter, type_pool, chunks) ==
    LET body == type_pool \o Pool16(<<<<97>>, <<98>>>>) \o Concat(chunks)
    IN  HeaderBytes(TypePackage, SizeOfPackage, SizeOfPackage + Len(body))
        \o U32(id) \o U16(letter) \o Zeros(254)
        \o U32(SizeOfPackage) \o U32(0) \o U32(SizeOfPackage + Len(type_pool)) \o U32(0)
        \o body

TableOf(value_pool, packages) ==
    TableChunk(12, Len(packages), value_pool \o Concat(packages))

\* the tables a client is given: one package with its types out of order;
\* two packages in ascending order of id; in descending order; of one id; of
\* one name; a package without types before one with a type without entries;
\* two entries of one name; two types of one name; no package
LoadedInputs ==
    LET ab == Pool16(<<<<97>>, <<98>>>>)
        aa == Pool16(<<<<97>>, <<97>>>>)
        both == TypeChunk(1, 0, <<Key(0), Key(1)>>)
        second == TypeChunk(2, 0, <<NoEntry, Key(0)>>)
    IN  {TableOf(StyledPool, <<PackageNamed(127, 112, ab, <<second, both>>)>>),
         TableOf(EmptyPool, <<PackageNamed(1, 112, ab, <<both>>),
                              PackageNamed(255, 113, ab, <<both, second>>)>>),
         TableOf(EmptyPool, <<PackageNamed(127, 112, ab, <<both>>),
                              PackageNamed(1, 113, ab, <<both>>)>>),
         TableOf(EmptyPool, <<PackageNamed(1, 112, ab, <<both>>),
                              PackageNamed(1, 113, ab, <<both>>)>>),
         TableOf(EmptyPool, <<PackageNamed(1, 112, ab, <<both>>),
                              PackageNamed(127, 112, ab, <<second>>)>>),
         TableOf(EmptyPool, <<PackageNamed(1, 112, ab, <<>>),
                              PackageNamed(127, 113, ab,
                                           <<TypeChunk(1, 0, <<NoEntry>>), second>>)>>),
         TableOf(EmptyPool, <<PackageNamed(127, 112, ab,
                                           <<TypeChunk(1, 0, <<Key(0), Key(0)>>)>>)>>),
         TableOf(EmptyPool, <<PackageNamed(127, 112, aa,
                                           <<TypeChunk(1, 0, <<Key(0)>>),
                                             TypeChunk(2, 0, <<NoEntry, Key(1)>>)>>)>>),
         TableOf(LyingPool, <<>>)}

LoadedInit ==
    /\ data \in LoadedInputs
    /\ beyond \in BeyondChoices(Len(data))
    /\ debug \in BOOLEAN
    /\ iter = ChunkIteratorNew(0, 0)
    /\ item = NoItem
    /\ prev = NoItem
    /\ pc = "parse"
    /\ top = ChunkIteratorNew(0, Len(data))
    /\ table = NoTable
    /\ package = NoPackage
    /\ child = NoItem
    /\ result = Running
    /\ ids = NoIterator
    /\ query = NoQuery
    /\ stack = <<>>

\* parse has returned a LoadedTable
TableLoaded == pc = "done" /\ result.kind = "Ok"

\* the names and ids a client asks for: those of the inputs and unknown ones
QueryLetters == {<<97>>, <<98>>, <<120>>}
QueryPackageNames == {<<112>>, <<113>>, <<120>>}
QueryIds == {FromParts(p, t, e) : p \in {1, 127, 255}, t \in {1, 2, 3}, e \in {0, 1, 2}}

\* the pools of the loaded model
LoadedPools ==
    {table.value_strings[1]}
    \cup {table.packages[k].type_strings : k \in DOMAIN table.packages}
    \cup {table.packages[k].name_strings : k \in DOMAIN table.packages}

\* table.resid_iter(), once no iterator is in use
ResidIter ==
    /\ TableLoaded
    /\ query = NoQuery
    /\ ids.it = <<>> \/ ids.ended
    /\ Len(ids.earlier) + (IF ids.it = <<>> THEN 0 ELSE 1) < MaxIterators
    /\ ids' = [it |-> <<ResourceIdIteratorNew(table.packages)>>,
               yielded |-> <<>>,
               ended |-> FALSE,
               earlier |-> IF ids.it = <<>> THEN <<>> ELSE Append(ids.earlier, ids.yielded)]
    /\ UNCHANGED <<data, beyond, debug, query>>
    /\ UNCHANGED walkVars
    /\ UNCHANGED parseVars

\* one call of next() on the iterator
ResidIterNext ==
    /\ ids.it # <<>>
    /\ LET r == ResourceIdIteratorNext(ids.it[1])
       IN  ids' = [ids EXCEPT !.it = <<r.it>>,
                              !.yielded = @ \o r.item,
                              !.ended = (r.item = <<>>)]
    /\ UNCHANGED <<data, beyond, debug, query>>
    /\ UNCHANGED walkVars
    /\ UNCHANGED parseVars

Asked(op, arg, ret, after) == [op |-> op, arg |-> arg, ret |-> ret, after |-> after]

\* table.resid_for_name(p, t, e), of names a client knows or of the names the
\* name_for_resid call before it returned
ResidForNameCall ==
    /\ TableLoaded
    /\ ids = NoIterator
    /\ \E p \in QueryPackageNames, t \in QueryLetters, e \in QueryLetters :
          /\ \/ query = NoQuery
             \/ /\ query.op = "name_for_resid"
                /\ query.after = <<>>
                /\ query.ret = <<<<p, t, e>>>>
          /\ query' = Asked("resid_for_name", <<p, t, e>>,
                            ResidForName(table.packages, p, t, e),
                            IF query = NoQuery THEN <<>> ELSE <<query>>)
    /\ UNCHANGED <<data, beyond, debug, ids>>
    /\ UNCHANGED walkVars
    /\ UNCHANGED parseVars

\* table.name_for_resid(id), of an id a client knows or of the id the
\* resid_for_name call before it returned
NameForResidCall ==
    /\ TableLoaded
    /\ ids = NoIterator
    /\ \E id \in QueryIds :
          /\ \/ query = NoQuery
             \/ /\ query.op = "resid_for_name"
                /\ query.after = <<>>
                /\ query.ret = <<id>>
          /\ query' = Asked("name_for_resid", id, NameForResid(table.packages, id),
                            IF query = NoQuery THEN <<>> ELSE <<query>>)
    /\ UNCHANGED <<data, beyond, debug, ids>>
    /\ UNCHANGED walkVars
    /\ UNCHANGED parseVars

\* pool.string_at(i) on a loaded pool
StringAtCall ==
    /\ TableLoaded
    /\ ids = NoIterator
    /\ query = NoQuery
    /\ \E pool \in LoadedPools, i \in 0..MaxIndex :
          query' = Asked("string_at", <<pool, i>>, StringAt(pool, i), <<>>)
    /\ UNCHANGED <<data, beyond, debug, ids>>
    /\ UNCHANGED walkVars
    /\ UNCHANGED parseVars

\* pool.style_at(i) on a loaded pool
StyleAtCall ==
    /\ TableLoaded
    /\ ids = NoIterator
    /\ query = NoQuery
    /\ \E pool \in LoadedPools, i \in 0..MaxIndex :
          query' = Asked("style_at", <<pool, i>>, StyleAt(pool, i), <<>>)
    /\ UNCHANGED <<data, beyond, debug, ids>>
    /\ UNCHANGED walkVars
    /\ UNCHANGED parseVars

LoadedNext ==
    \/ ParseFirstItem \/ ParseTrailing \/ TableChild \/ PackageChild
    \/ ResidIter \/ ResidIterNext
    \/ ResidForNameCall \/ NameForResidCall
    \/ StringAtCall \/ StyleAtCall

LoadedSpec == LoadedInit /\ [][LoadedNext]_vars

(***************************************************************************)
(* A client of ResourceId alone                                            *)
(***************************************************************************)
IdBytes == {0, 1, 127, 128, 255}
IdShorts == {0, 1, 255, 256, 65535}
\* 0, 1, 0xffff, 0x1_0000, 0x7f02_0001, 0x7fff_ffff, 0x8000_0000, 0xffff_ffff
RawIds == {0, 1, 65535, 65536, 2130837505, 2147483647, -2147483647 - 1, -1}

\* a ResourceId with what its accessors and its conversion to u32 return
Observed(resid) ==
    [resid |-> resid, package_id |-> PackageId(resid), type_id |-> TypeId(resid),
     entry_id |-> EntryId(resid), raw |-> IntoU32(resid)]

IdInit ==
    /\ data = <<>>
    /\ beyond = <<>>
    /\ debug = TRUE
    /\ iter = ChunkIteratorNew(0, 0)
    /\ item = NoItem
    /\ prev = NoItem
    /\ pc = "idle"
    /\ top = ChunkIteratorNew(0, 0)
    /\ table = NoTable
    /\ package = NoPackage
    /\ child = NoItem
    /\ result = Running
    /\ ids = NoIterator
    /\ query = NoQuery
    /\ stack = <<>>

\* ResourceId::from_parts(p, t, e)
FromPartsCall ==
    /\ query = NoQuery
    /\ \E p \in IdBytes, t \in IdBytes, e \in IdShorts :
          query' = Asked("from_parts", <<p, t, e>>, Observed(FromParts(p, t, e)), <<>>)
    /\ UNCHANGED <<data, beyond, debug, ids>>
    /\ UNCHANGED walkVars
    /\ UNCHANGED parseVars

\* ResourceId::from_u32(r), of a raw value a client knows or of the u32 the
\* id made by from_parts converts to
FromU32Call ==
    /\ \/ query = NoQuery /\ \E r \in RawIds :
             query' = Asked("from_u32", r, Observed(FromU32(r)), <<>>)
       \/ /\ query.op = "from_parts"
          /\ query' = Asked("from_u32", query.ret.raw, Observed(FromU32(query.ret.raw)),
                            <<query>>)
    /\ UNCHANGED <<data, beyond, debug, ids>>
    /\ UNCHANGED walkVars
    /\ UNCHANGED parseVars

IdNext == FromPartsCall \/ FromU32Call

IdSpec == IdInit /\ [][IdNext]_vars

(***************************************************************************)
(* Claims about the chunk walker                                           *)
(***************************************************************************)
Yielded(i) == i.kind \in ChunkKinds \cup {"Error"}

\* C1: repeated next() calls yield only finitely many items.  The walker is
\* deterministic and its only state is the cursor, which never moves back, so
\* the sequence is finite exactly when every call that yields an item moves
\* the cursor forward: a call that yields and leaves the cursor in place is
\* repeated by every later call.
C1_FinitelyManyItems == [][Yielded(item') => iter'.offset > iter.offset]_vars

\* the header fields at the cursor
HeaderSizeAt(it) == ReadU16(it.lo + it.offset + 2)
SizeAt(it) == ReadU32(it.lo + it.offset + 4)
TypeAt(it) == ReadU16(it.lo + it.offset)

\* C2: a yielded chunk covers exactly [cursor, cursor + total-size) with
\* header-size <= total-size <= bytes remaining, the cursor advances by exactly
\* total-size, successive chunks are contiguous, every chunk lies inside the
\* slice and the cursor never exceeds the slice length.
C2_ChunkCoversItsRange ==
    /\ [](iter.offset <= DataLen(iter))
    /\ [](item.kind \in ChunkKinds => iter.lo <= item.lo /\ item.lo <= item.hi /\ item.hi <= iter.hi)
    /\ [][item'.kind \in ChunkKinds =>
            /\ item'.lo = iter.lo + iter.offset
            /\ item'.hi = item'.lo + SizeAt(iter)
            /\ HeaderSizeAt(iter) <= SizeAt(iter)
            /\ SizeAt(iter) <= DataLen(iter) - iter.offset
            /\ iter'.offset = iter.offset + SizeAt(iter)
            /\ (item.kind \in ChunkKinds => item'.lo = item.hi)]_vars

\* a second chunk was yielded right behind a first, non-empty one
C2_Witness ==
    /\ prev.kind \in ChunkKinds /\ item.kind \in ChunkKinds
    /\ prev.hi > prev.lo /\ item.hi > item.lo /\ item.lo = prev.hi

\* the four structural errors of a header at the cursor
StructuralError(it) ==
    /\ it.offset < DataLen(it)
    /\ \/ DataLen(it) - it.offset < SizeOfHeader
       \/ ULt(SizeAt(it), HeaderSizeAt(it))
       \/ ULt(DataLen(it) - it.offset, SizeAt(it))
       \/ TypeAt(it) \notin ChunkTypeCodes

\* C3: a structural error makes the walker yield an Error item, and an Error
\* item is the last item: every later call returns end-of-sequence.
C3_ErrorItemIsLast ==
    /\ [][StructuralError(iter) => item'.kind = "Error"]_vars
    /\ [][item.kind \in {"Error", "None"} => item'.kind = "None"]_vars
    /\ [](prev.kind \in {"Error", "None"} => item.kind = "None")

\* a chunk, then an Error item, then end-of-sequence
C3_Witness == prev.kind = "Error" /\ item.kind = "None" /\ prev.lo > 0

\* C4: next() returns a chunk item, an Error item or end-of-sequence and never
\* aborts.
C4_NextNeverPanics == item.kind # "Panic"

(***************************************************************************)
(* Claims about LoadedTable::parse                                         *)
(***************************************************************************)
\* whether the bytes at p look like the header of a Type chunk with FLAG_SPARSE
SparseTypeAt(p) ==
    /\ ReadU16(p) = TypeType
    /\ ReadU8(p + Type_flags) % 2 = 1

\* no Type chunk of the input has the sparse flag
NoSparseType == \A p \in 0..(Len(data) - SizeOfType) : ~SparseTypeAt(p)

\* C5: parse of an input without a sparse Type chunk returns a Table or an
\* Error value; it never panics.
C5_ParseNeverPanics == (result.kind = "Panic") => ~NoSparseType

\* the bytes of the input left after the item the top-level walk gave first
TrailingBytes == DataLen(top) - top.offset

\* C6: parse of the empty input is CorruptData("no data to traverse"); a first
\* top-level item other than a Table chunk is CorruptData; any bytes trailing
\* the Table chunk are CorruptData("trailing data after table"); parse succeeds
\* only when the Table chunk is the whole input.
C6_OneTopLevelTable ==
    /\ [][pc = "parse" /\ data = <<>>
            => result' = Outcome("CorruptData", "no data to traverse")]_vars
    /\ [][pc = "parse" /\ Yielded(child') /\ child'.kind # "Table"
            => result'.kind = "CorruptData"]_vars
    /\ [][pc = "trailing" /\ TrailingBytes > 0
            => result' = Outcome("CorruptData", "trailing data after table")]_vars
    /\ [](result.kind = "Ok" => table.lo = 0 /\ table.hi = Len(data) /\ table.hi > 0)

\* C7: among a Table's children a second StringPool is CorruptData, the end of
\* the children without a StringPool is CorruptData, a Package child is handed
\* to parse_package and pushed once loaded, a Spec, Type or Table child is
\* UnexpectedChunk; a Table returned has its one value pool.
C7_TableChildren ==
    /\ [][pc = "table" /\ child'.kind = "StringPool" /\ table.value_strings # <<>>
            => result'.kind = "CorruptData"]_vars
    /\ [][pc = "table" /\ child'.kind = "None" /\ table.value_strings = <<>>
            => result'.kind = "CorruptData"]_vars
    /\ [][pc = "table" /\ child'.kind = "Package" /\ child'.hi > child'.lo
            => pc' = "package" /\ package'.lo = child'.lo /\ package'.hi = child'.hi]_vars
    /\ [][pc = "package" /\ pc' = "table"
            => Len(table'.packages) = Len(table.packages) + 1]_vars
    /\ [][pc = "table" /\ child'.kind \in {"Spec", "Type", "Table"}
            => result'.kind = "UnexpectedChunk"]_vars
    /\ [](result.kind = "Ok" => Len(table.value_strings) = 1)

\* a second StringPool child of a Table has ended parse
C7_Witness ==
    /\ child.kind = "StringPool"
    /\ table.value_strings # <<>>
    /\ result = Outcome("CorruptData", "muiltiple string pools in table")

\* C8: a Table returned has as many packages as its header declares; at the
\* end of the children of a Table with its value pool, another number of
\* loaded packages is CorruptData.
C8_DeclaredPackageCount ==
    /\ [](result.kind = "Ok"
            => Len(table.packages) = ReadU32(table.lo + Table_package_count))
    /\ [][(/\ pc = "table"
           /\ child'.kind = "None"
           /\ table.value_strings # <<>>
           /\ Len(table.packages) # ReadU32(table.lo + Table_package_count))
            => result'.kind = "CorruptData"]_vars

\* parse has returned a Table of the one package its header declares
C8_Witness ==
    /\ result.kind = "Ok"
    /\ Len(table.packages) = 1
    /\ ReadU32(table.lo + Table_package_count) = 1

\* whether the header of the package being parsed lies in memory
PackageHeaderReadable == Readable(package.lo, SizeOfPackage)

\* the offsets the header of the package being parsed declares for its pools
DeclaredPoolOffsets ==
    {ReadU32(package.lo + Package_types_string_buffer_offset),
     ReadU32(package.lo + Package_names_string_buffer_offset)}

\* C9: for a Package whose header lies in memory, a StringPool child at
\* neither declared offset is CorruptData, as is the end of the children
\* without both pools; a Package pushed has both pools, each at its declared
\* offset.
C9_PackagePools ==
    /\ [][(/\ pc = "package"
           /\ PackageHeaderReadable
           /\ child'.kind = "StringPool"
           /\ (child'.lo - package.lo) \notin DeclaredPoolOffsets)
            => result'.kind = "CorruptData"]_vars
    /\ [][(/\ pc = "package"
           /\ child'.kind = "None"
           /\ (package.type_strings = <<>> \/ package.name_strings = <<>>))
            => result'.kind = "CorruptData"]_vars
    /\ [][pc = "package" /\ PackageHeaderReadable /\ pc' = "table"
            => /\ Len(package.type_strings) = 1
               /\ Len(package.name_strings) = 1
               /\ package.type_strings[1].base - package.lo
                    = ReadU32(package.lo + Package_types_string_buffer_offset)
               /\ package.name_strings[1].base - package.lo
                    = ReadU32(package.lo + Package_names_string_buffer_offset)]_vars

\* C10: an Error item of the walker, at the top level, among the children of
\* a Table or among those of a Package, ends parse with CorruptData.
C10_ErrorItemIsCorruptData == [][child'.kind = "Error" => result'.kind = "CorruptData"]_vars

\* chunks.rs, ConfigurationFlags: the bits the vocabulary names, MCC (bit 0)
\* to COLOR_MODE (bit 16) and PUBLIC (bit 30)
ConfigurationFlagBits == (0..16) \cup {30}
Spec_entry_count == 12

\* bit k of a 32-bit value
Bit(v, k) == IF k = 31 THEN v < 0 ELSE (v \div (2 ^ k)) % 2 = 1

\* the flag mask of entry k of the Spec chunk c
SpecFlagsAt(c, k) == ReadU32(c.lo + ReadU16(c.lo + 2) + 4 * k)

\* whether a mask of the Spec chunk c, which holds all its masks, has a bit
\* outside the vocabulary
SpecHasUnknownFlag(c) ==
    /\ c.kind = "Spec"
    /\ c.hi - c.lo >= SizeOfSpec
    /\ ReadU32(c.lo + Spec_entry_count) > 0
    /\ c.lo + ReadU16(c.lo + 2) + 4 * ReadU32(c.lo + Spec_entry_count) <= c.hi
    /\ \E k \in 0..(ReadU32(c.lo + Spec_entry_count) - 1) :
          \E b \in (0..31) \ ConfigurationFlagBits : Bit(SpecFlagsAt(c, k), b)

\* C11: a Spec chunk of a Package with a flag mask that has a bit outside the
\* ConfigurationFlags vocabulary ends parse with CorruptData.
C11_SpecFlagsValidated ==
    [][pc = "package" /\ SpecHasUnknownFlag(child') => result'.kind = "CorruptData"]_vars

\* whether two Type chunks pushed for one type id differ in entry-count
EntryCountsDiffer(types) ==
    \E i, j \in DOMAIN types :
        i < j /\ types[i].id = types[j].id /\ Len(types[i].values) # Len(types[j].values)

\* C12: the first Type chunk of a type id fixes the arity; once a later Type
\* chunk of that id with another entry-count has been read, parse ends with
\* CorruptData and returns no Table.
C12_EntryCountFixedByFirstChunk ==
    (pc = "done" /\ EntryCountsDiffer(package.types)) => result.kind = "CorruptData"

\* whether c is a Type chunk whose flags, as parse_type reads them, have
\* FLAG_SPARSE
SparseType(c) ==
    /\ AsView(c, "Type").kind = "Ok"
    /\ Readable(c.lo + Type_flags, 1)
    /\ ReadU8(c.lo + Type_flags) % 2 = 1

\* C13 as stated: a sparse Type chunk among the children of a Package makes
\* parse return an Error value to its caller.
C13_SparseTypeIsError ==
    [][pc = "package" /\ SparseType(child') => result'.kind \in ErrorKinds]_vars

\* C13, amended: a sparse Type chunk among the children of a Package ends
\* parse at once with the panic of unimplemented!(); no Error value and no
\* Table is returned, and nothing happens to the outcome afterwards.
C13_SparseTypePanics ==
    /\ [][pc = "package" /\ SparseType(child')
            => /\ pc' = "done"
               /\ result' = Outcome("Panic", "FLAG_SPARSE not supported yet")
               /\ table'.packages = table.packages]_vars
    /\ [][pc = "done" => result' = result]_vars

\* parse has ended at a sparse Type chunk
C13_Witness ==
    /\ pc = "done"
    /\ SparseType(child)
    /\ result = Outcome("Panic", "FLAG_SPARSE not supported yet")

(***************************************************************************)
(* Claims about the queries on a loaded model                              *)
(***************************************************************************)
\* C14: whatever the number of packages and the order of their ids in the
\* file, the ids an iterator of resid_iter has yielded are strictly increasing
\* as 32-bit unsigned values; hence none is yielded twice.
C14_StrictlyIncreasing ==
    \A k \in 1..(Len(ids.yielded) - 1) :
        ULt(IntoU32(ids.yielded[k]), IntoU32(ids.yielded[k + 1]))

\* the ids of the entries of the types of id type_id in pkg, ascending
EntryIdsOf(pkg, type_id) ==
    SortSet(UNION {{pkg.types[k].entries[j].id : j \in DOMAIN pkg.types[k].entries} :
                      k \in {i \in DOMAIN pkg.types : pkg.types[i].id = type_id}})
FlattenType(pkg, type_id, entry_ids) ==
    [j \in DOMAIN entry_ids |-> FromParts(pkg.id, type_id, entry_ids[j])]
FlattenPackage(pkg, type_ids) ==
    Concat([k \in DOMAIN type_ids |-> FlattenType(pkg, type_ids[k], EntryIdsOf(pkg, type_ids[k]))])
\* packages in insertion order, types by ascending type id, entries by
\* ascending entry id
Flattening(packages) ==
    Concat([k \in DOMAIN packages |->
              FlattenPackage(packages[k],
                             SortSet({packages[k].types[j].id : j \in DOMAIN packages[k].types}))])

IsPrefix(a, b) == Len(a) <= Len(b) /\ a = SubSeq(b, 1, Len(a))

Distinct(seq) == \A i, j \in DOMAIN seq : i # j => seq[i] # seq[j]

\* no two packages of one name or one id, no two types of a package of one
\* name, no two entries of a type of one name
WellFormed(packages) ==
    /\ Distinct([k \in DOMAIN packages |-> packages[k].name])
    /\ Distinct([k \in DOMAIN packages |-> packages[k].id])
    /\ \A k \in DOMAIN packages :
          /\ Distinct([j \in DOMAIN packages[k].types |-> packages[k].types[j].name])
          /\ \A j \in DOMAIN packages[k].types :
                Distinct([i \in DOMAIN packages[k].types[j].entries |->
                             packages[k].types[j].entries[i].name])

\* the name triples of the resources of the model
ResourcesOfType(p, t) == {<<p.name, t.name, t.entries[i].name>> : i \in DOMAIN t.entries}
ResourcesOfPackage(p) == UNION {ResourcesOfType(p, p.types[j]) : j \in DOMAIN p.types}
Resources(packages) == UNION {ResourcesOfPackage(packages[k]) : k \in DOMAIN packages}

HasNamed(packages, p, t, e) == <<p, t, e>> \in Resources(packages)

\* whether some package has the package id of resid, a type of its type id
\* and in it an entry of its entry id
HasId(packages, resid) ==
    \E k \in DOMAIN packages : \E j \in DOMAIN packages[k].types :
        \E i \in DOMAIN packages[k].types[j].entries :
            /\ packages[k].id = PackageId(resid)
            /\ packages[k].types[j].id = TypeId(resid)
            /\ packages[k].types[j].entries[i].id = EntryId(resid)

\* C17 as stated: resid_for_name(p, t, e) returns an id exactly when a package
\* named p has a type named t with an entry named e, and none when a component
\* is unknown; name_for_resid returns none when the package, type or entry id
\* is not in the model.
C17_LookupIff ==
    /\ query.op = "resid_for_name"
          => (query.ret # <<>>
                <=> HasNamed(table.packages, query.arg[1], query.arg[2], query.arg[3]))
    /\ (query.op = "name_for_resid" /\ ~HasId(table.packages, query.arg))
          => query.ret = <<>>

Least(S) == CHOOSE k \in S : \A n \in S : k <= n

\* the first package named p, its first type named t and that type's first
\* entry named e, as <<package, type, entry>>, or <<>>
FirstNamed(packages, p, t, e) ==
    LET ps == {k \in DOMAIN packages : packages[k].name = p}
        pkg == packages[Least(ps)]
        ts == {j \in DOMAIN pkg.types : pkg.types[j].name = t}
        type_ == pkg.types[Least(ts)]
        es == {i \in DOMAIN type_.entries : type_.entries[i].name = e}
    IN  IF ps = {} THEN <<>>
        ELSE IF ts = {} THEN <<>>
        ELSE IF es = {} THEN <<>>
        ELSE <<pkg, type_, type_.entries[Least(es)]>>

\* the first package of the package id of resid, its first type of the type
\* id and that type's first entry of the entry id, or <<>>
FirstOfId(packages, resid) ==
    LET ps == {k \in DOMAIN packages : packages[k].id = PackageId(resid)}
        pkg == packages[Least(ps)]
        ts == {j \in DOMAIN pkg.types : pkg.types[j].id = TypeId(resid)}
        type_ == pkg.types[Least(ts)]
        es == {i \in DOMAIN type_.entries : type_.entries[i].id = EntryId(resid)}
    IN  IF ps = {} THEN <<>>
        ELSE IF ts = {} THEN <<>>
        ELSE IF es = {} THEN <<>>
        ELSE <<pkg, type_, type_.entries[Least(es)]>>

\* the id or the names a lookup returns for such a match
IdOfMatch(m) == IF m = <<>> THEN <<>> ELSE <<FromParts(m[1].id, m[2].id, m[3].id)>>
NamesOfMatch(m) == IF m = <<>> THEN <<>> ELSE <<<<m[1].name, m[2].name, m[3].name>>>>

\* C17, amended: resid_for_name(p, t, e) returns an id exactly when the first
\* package named p has a type named t and the first such type has an entry
\* named e; the id is built from the ids of that package, that type and its
\* first entry named e.  name_for_resid(id) returns names exactly when the
\* first package of the package id has a type of the type id and the first
\* such type has an entry of the entry id; they are the names of these
\* three.  Either returns none when a component is in no package at all.
C17_LookupFirstMatch ==
    /\ query.op = "resid_for_name"
          => /\ query.ret = IdOfMatch(FirstNamed(table.packages, query.arg[1], query.arg[2],
                                                 query.arg[3]))
             /\ ~HasNamed(table.packages, query.arg[1], query.arg[2], query.arg[3])
                   => query.ret = <<>>
    /\ query.op = "name_for_resid"
          => /\ query.ret = NamesOfMatch(FirstOfId(table.packages, query.arg))
             /\ ~HasId(table.packages, query.arg) => query.ret = <<>>

\* resid_for_name has returned none for a resource of the second of two
\* packages of one name
C17_Witness ==
    /\ query.op = "resid_for_name"
    /\ query.ret = <<>>
    /\ HasNamed(table.packages, query.arg[1], query.arg[2], query.arg[3])
    /\ Len(table.packages) = 2
    /\ table.packages[1].name = table.packages[2].name

(***************************************************************************)
(* Claims about the string pool and ResourceId                             *)
(***************************************************************************)
\* C18: string_at(i) on a loaded pool succeeds exactly when i is below
\* string_count() and fails with BadIndex otherwise; style_at(i) fails with
\* BadIndex when i is not below style_count().
C18_IndexInRange ==
    /\ query.op = "string_at"
          => /\ query.ret.out.kind = "Ok" <=> ULt(query.arg[2], query.arg[1].string_count)
             /\ ~ULt(query.arg[2], query.arg[1].string_count)
                   => query.ret.out.kind = "BadIndex"
    /\ (query.op = "style_at" /\ ~ULt(query.arg[2], query.arg[1].style_count))
          => query.ret.out.kind = "BadIndex"

\* C19: from_parts(p, t, e) is the u32 of the bytes e (low, high), t, p from
\* the least significant one, that is (p << 24) | (t << 16) | e; the accessors
\* give p, t and e back; from_u32 of that value is the same id; from_u32(r)
\* converted to u32 is r.
C19_PackingIsLossless ==
    /\ query.op = "from_parts"
          => /\ U32(query.ret.raw)
                  = <<query.arg[3] % 256, query.arg[3] \div 256, query.arg[2], query.arg[1]>>
             /\ query.ret.package_id = query.arg[1]
             /\ query.ret.type_id = query.arg[2]
             /\ query.ret.entry_id = query.arg[3]
    /\ query.op = "from_u32"
          => /\ query.ret.raw = query.arg
             /\ query.after # <<>> => query.ret.resid = query.after[1].ret.resid

\* from_parts(255, 255, 0xffff) has gone through from_u32 and back
C19_Witness ==
    /\ query.op = "from_u32"
    /\ query.after # <<>>
    /\ query.after[1].arg = <<255, 255, 65535>>
    /\ query.ret.package_id = 255
    /\ query.ret.entry_id = 65535

\* C20: the loader reads no byte outside the chunk it is parsing: no read
\* leaves the memory of the input, and the fields of a Package header are read
\* only of a Package chunk that holds the whole header.
C20_ReadsStayInChunk ==
    /\ [](result.kind # "Fault")
    /\ [][(/\ pc = "package"
           /\ child'.kind = "StringPool"
           /\ AsView(child', "StringPool").kind = "Ok")
            => package.hi - package.lo >= SizeOfPackage]_vars

(***************************************************************************)
(* Claims about the types and entries of a loaded package                  *)
(***************************************************************************)
\* the package the step pushes, and the value vectors of the Type chunks it
\* read for type_id, in the order read
PushedPackage == table'.packages[Len(table'.packages)]
ChunksOf(type_id) == AllValues(package'.types, type_id)

\* the chunks of chunks, in the order read, that have slot i (from 0) present
ChunksWithSlot(chunks, i) ==
    SortSet({k \in DOMAIN chunks : i < Len(chunks[k]) /\ chunks[k][i + 1].present})

\* whether the entries of the loaded type t are those of the slots of chunks,
\* the value vectors of its Type chunks
EntriesOfSlots(t, chunks) ==
    /\ \A i \in 0..(Len(chunks[1]) - 1) :
          (\E j \in DOMAIN t.entries : t.entries[j].id = i)
             <=> ChunksWithSlot(chunks, i) # <<>>
    /\ \A j \in DOMAIN t.entries :
          /\ t.entries[j].id < Len(chunks[1])
          /\ t.entries[j].values
                = [n \in DOMAIN ChunksWithSlot(chunks, t.entries[j].id) |->
                      chunks[ChunksWithSlot(chunks, t.entries[j].id)[n]][t.entries[j].id + 1]]
    /\ \A j \in 1..(Len(t.entries) - 1) : t.entries[j].id < t.entries[j + 1].id

\* C21: in a package that is loaded, each type of arity n (the entry-count of
\* its first Type chunk) has an entry of id i < n exactly for the slots i that
\* some Type chunk of the type has present; the entry's values are those of
\* the chunks that have the slot, in the order the chunks were read; the
\* entries are in strictly ascending order of id.  The inputs reach arities
\* 1 and 2; line 246 narrows the slot index to 16 bits (PushEntry), which
\* only an arity above 65536 would show.
C21_EntriesOfPresentSlots ==
    [][(pc = "package" /\ pc' = "table")
        => \A j \in DOMAIN PushedPackage.types :
              EntriesOfSlots(PushedPackage.types[j], ChunksOf(PushedPackage.types[j].id))]_vars

\* a package is loaded with a type of two Type chunks of arity 2 and 1: slot 0
\* is present in the second chunk only, slot 1 in the first
C21_Witness ==
    /\ pc \in {"table", "done"}
    /\ Len(table.packages) = 1
    /\ Len(table.packages[1].types) = 1
    /\ Len(AllValues(package.types, 1)) = 2
    /\ Len(AllValues(package.types, 1)[1]) = 2
    /\ ~AllValues(package.types, 1)[1][1].present
    /\ Len(table.packages[1].types[1].entries) = 2

\* whether the types of the loaded package pkg are numbered from 1 without
\* repetition, in ascending order, and named by the type-string pool
TypesNumberedAndNamed(pkg) ==
    /\ \A j \in DOMAIN pkg.types :
          /\ pkg.types[j].id >= 1
          /\ StringAt(pkg.type_strings, pkg.types[j].id - 1).out.kind = "Ok"
          /\ pkg.types[j].name = StringAt(pkg.type_strings, pkg.types[j].id - 1).s
    /\ \A j \in 1..(Len(pkg.types) - 1) : pkg.types[j].id < pkg.types[j + 1].id

\* whether a Type chunk of p has a type-id above the number of type strings
TypeIdBeyondPool(p) ==
    /\ p.type_strings # <<>>
    /\ p.name_strings # <<>>
    /\ \E k \in DOMAIN p.types : ULt(p.type_strings[1].string_count, p.types[k].id)

\* C22: every type of a loaded package has a type-id of 1 or more, stands for
\* all the Type chunks of its type-id (the type-ids of the types are those of
\* the chunks, each once), the types are in ascending order of type-id and
\* each is named string_at(type-id - 1) of the type-string pool; when the
\* children of a package have been read and a Type chunk has a type-id above
\* the number of type strings, parse returns BadIndex.
C22_TypesNumberedAndNamed ==
    [][/\ (pc = "package" /\ pc' = "table")
           => /\ TypesNumberedAndNamed(PushedPackage)
              /\ {PushedPackage.types[j].id : j \in DOMAIN PushedPackage.types}
                    = {package'.types[k].id : k \in DOMAIN package'.types}
       /\ (pc = "package" /\ child'.kind = "None" /\ TypeIdBeyondPool(package'))
           => result'.kind = "BadIndex"]_vars

(***************************************************************************)
(* chunks.rs: Chunk::iter; main.rs: iterate, the depth-first walk, and the *)
(* iterate of the test iter_valid_data, which is the same walk without the *)
(* reads of the arms                                                       *)
(***************************************************************************)
MaxDepth == 3
MaxIterateChildren == 1

ContainerKinds == {"Table", "Package"}

\* Some(walker), None, or how the call ended
Child(out, it) == [out |-> out, it |-> it]

\* Chunk::iter (chunks.rs:63-73): &bytes[0] and &bytes[header_size..] are
\* checked indexings of the chunk's slice
ChunkIterOf(c) ==
    IF c.kind \notin ContainerKinds THEN Child(Outcome("Ok", ""), <<>>)
    ELSE IF c.hi = c.lo THEN Child(Outcome("Panic", "index out of bounds"), <<>>)
    ELSE IF ~Readable(c.lo + 2, 2) THEN Child(Fault, <<>>)
    ELSE IF ReadU16(c.lo + 2) > c.hi - c.lo
    THEN Child(Outcome("Panic", "range start index out of range"), <<>>)
    ELSE Child(Outcome("Ok", ""), <<ChunkIter(c)>>)

\* one arm of the match of main.rs (lines 11-47): &bytes[0], then the fields
\* printed are read through the struct overlaid on the chunk
ArmOf(c) ==
    IF c.kind = "Error" THEN Outcome("Ok", "")
    ELSE IF c.hi = c.lo THEN Outcome("Panic", "index out of bounds")
    ELSE IF c.kind \in ContainerKinds /\ ~Readable(c.lo + 8, 4) THEN Fault
    ELSE IF c.kind \notin ContainerKinds /\ ~Readable(c.lo + 8, 8) THEN Fault
    ELSE Outcome("Ok", "")

\* the arm of the test's iterate reads nothing
NoArm(c) == Outcome("Ok", "")

\* lines 48-50: the call of iterate on the child walker, if there is one;
\* calls is the stack with the walker of this call advanced
Descend(calls, arm, ci) ==
    IF arm.kind # "Ok" THEN Return(arm) /\ stack' = calls
    ELSE IF ci.out.kind # "Ok" THEN Return(ci.out) /\ stack' = calls
    ELSE IF ci.it = <<>> THEN stack' = calls /\ UNCHANGED <<pc, result>>
    ELSE /\ Len(calls) < MaxDepth
         /\ stack' = Append(calls, ci.it[1])
         /\ UNCHANGED <<pc, result>>

\* one turn of the for loop of the innermost call: next() on its walker, the
\* arm, the descent; the loop ending returns to the caller
Turn(r, arm) ==
    /\ item' = r.item
    /\ prev' = item
    /\ IF r.item.kind = "None"
       THEN /\ stack' = SubSeq(stack, 1, Len(stack) - 1)
            /\ IF Len(stack) = 1 THEN Return(Outcome("Ok", "")) ELSE UNCHANGED <<pc, result>>
       ELSE IF r.item.kind = "Panic"
       THEN /\ Return(Outcome("Panic", "not yet implemented"))
            /\ stack' = [stack EXCEPT ![Len(stack)] = r.it]
       ELSE Descend([stack EXCEPT ![Len(stack)] = r.it], arm, ChunkIterOf(r.item))
    /\ UNCHANGED <<data, beyond, debug, iter, top, table, package, child>>
    /\ UNCHANGED clientVars

\* main.rs: iterate
Iterate ==
    /\ pc = "iterate"
    /\ stack # <<>>
    /\ Turn(ChunkIteratorNext(stack[Len(stack)]),
            ArmOf(ChunkIteratorNext(stack[Len(stack)]).item))

\* chunks.rs, test iter_valid_data: iterate
IterValidData ==
    /\ pc = "iter_valid_data"
    /\ stack # <<>>
    /\ Turn(ChunkIteratorNext(stack[Len(stack)]),
            NoArm(ChunkIteratorNext(stack[Len(stack)]).item))

\* what a Table is given to hold: leaves, containers, containers whose
\* header-size is 0 or lies inside their header, chunks of total-size 0
IterateChildKinds ==
    {EmptyPool, GoodPackage, SpecChunk, Junk, NullChunk,
     ZeroChunk(TypeStringPool), ZeroChunk(TypePackage), ZeroChunk(TypeTable),
     TableChunk(12, 0, <<>>), TableChunk(0, 0, <<>>),
     PackageChunk(0, 127, 0, 0, <<>>), PackageChunk(8, 127, 0, 0, <<>>)}
IterateShapes == {<<12, 1>>, <<8, 1>>, <<0, 1>>}
IterateInputs ==
    {TableChunk(sh[1], sh[2], Concat(cs)) :
        sh \in IterateShapes, cs \in SeqsUpTo(IterateChildKinds, MaxIterateChildren)}
    \cup {<<>>, Junk, ZeroChunk(TypeTable), ZeroChunk(TypeSpec), GoodTable \o EmptyPool}

IterateInit ==
    /\ data \in IterateInputs
    /\ beyond \in BeyondChoices(Len(data))
    /\ debug = FALSE
    /\ iter = ChunkIteratorNew(0, 0)
    /\ item = NoItem
    /\ prev = NoItem
    /\ pc \in {"iterate", "iter_valid_data"}
    /\ top = ChunkIteratorNew(0, 0)
    /\ table = NoTable
    /\ package = NoPackage
    /\ child = NoItem
    /\ result = Running
    /\ ids = NoIterator
    /\ query = NoQuery
    /\ stack = <<ChunkIteratorNew(0, Len(data))>>

IterateNext == Iterate \/ IterValidData

IterateSpec == IterateInit /\ [][IterateNext]_vars

(***************************************************************************)
(* Claims about Chunk::iter and the depth-first walk                       *)
(***************************************************************************)
\* the step is a turn of the loop in which Chunk::iter is called on item'
IterCalled ==
    /\ pc \in {"iterate", "iter_valid_data"}
    /\ item'.kind \in ChunkKinds \cup {"Error"}
    /\ (pc = "iterate") => (ArmOf(item').kind = "Ok")

\* the walker the step descends into is the one over bytes lo to hi
DescendsInto(lo, hi) ==
    /\ Len(stack') = Len(stack) + 1
    /\ stack'[Len(stack')] = ChunkIteratorNew(lo, hi)

\* C23: Chunk::iter on a Table or Package chunk returns a walker over the bytes
\* of the chunk from header-size to total-size, which the walk descends into;
\* on a StringPool, Spec, Type or Error item it returns no walker; every chunk
\* a walker yields lies within the bytes of that walker.
C23_ChildWalkerOverPayload ==
    [][IterCalled
        => /\ (item'.kind \in ContainerKinds)
                 => DescendsInto(item'.lo + ReadU16(item'.lo + 2), item'.hi)
           /\ (item'.kind \notin ContainerKinds) => (Len(stack') = Len(stack))
           /\ (item'.kind \in ChunkKinds)
                 => (stack[Len(stack)].lo <= item'.lo /\ item'.hi <= stack[Len(stack)].hi)]_vars

\* the walker the step descends into has fewer bytes than the chunk item',
\* and they are bytes of that chunk
Shrinks ==
    /\ item'.lo <= stack'[Len(stack')].lo
    /\ stack'[Len(stack')].hi <= item'.hi
    /\ stack'[Len(stack')].hi - stack'[Len(stack')].lo < item'.hi - item'.lo

\* C24: the walk descends only into a walker whose bytes are strictly fewer
\* than those of the chunk it comes from, so that no container is yielded
\* again as its own child, and no turn of the walk ends by indexing an empty
\* chunk.
C24_DescentShrinks ==
    [][(pc \in {"iterate", "iter_valid_data"})
        => /\ (Len(stack') > Len(stack)) => Shrinks
           /\ ~(result'.kind = "Panic" /\ result'.why = "index out of bounds")]_vars
====
